---- MODULE Spec2Model ----
(***************************************************************************)
(* EOS MCP server: the upstream client adapter (EOSApiService), the tool   *)
(* catalog (MCPTools), the tool-call dispatcher (EOSMCPServer) and the     *)
(* REST dispatcher (RestApiServer), as one state machine.                  *)
(*                                                                         *)
(* A request is one suspendable call chain.  It starts (CallTool /         *)
(* RestRequest), puts at most one HTTP request on the wire, is suspended   *)
(* while that request is in flight (pending), and resumes when upstream    *)
(* settles (ToolSettle / RestSettle).                                      *)
(***************************************************************************)
EXTENDS Bags, FiniteSets, Integers, Sequences, TLC

\* Number of call chains that may be suspended on an upstream call at once.
MaxInFlight == 2

(***************************************************************************)
(* JavaScript values.  Every value carries its type in k, so that values   *)
(* of different types can be told apart.                                   *)
(***************************************************************************)
Undefined == [k |-> "undefined"]
Null      == [k |-> "null"]
Str(s)    == [k |-> "string", v |-> s]
Num(n)    == [k |-> "number", v |-> n]
Bool(b)   == [k |-> "boolean", v |-> b]
Obj(f)    == [k |-> "object", v |-> f]
Arr(s)    == [k |-> "array", v |-> s]
EmptyObj  == Obj(<<>>)

\* ToBoolean: undefined, null, "", 0 and false are falsy; objects and arrays
\* (the empty array included) are truthy.
Truthy(x) ==
  CASE x.k = "undefined" -> FALSE
    [] x.k = "null"      -> FALSE
    [] x.k = "string"    -> x.v # ""
    [] x.k = "number"    -> x.v # 0
    [] x.k = "boolean"   -> x.v
    [] OTHER             -> TRUE

\* x || y
Or(x, y) == IF Truthy(x) THEN x ELSE y

\* x?.f : the property f of x, undefined when x has no such property.
Get(x, f) ==
  IF x.k = "object" /\ f \in DOMAIN x.v THEN x.v[f] ELSE Undefined

\* `${x}` for the values that occur in a template string.
ToStr(x) ==
  CASE x.k = "string" -> x.v
    [] x.k = "number" -> ToString(x.v)
    [] OTHER          -> x.k

\* x.length
Length(x) == IF x.k = "array" THEN Num(Len(x.v)) ELSE Undefined

\* Property order of the object literals and interfaces of the program.
KeyOrder ==
  << "success", "message", "data", "error", "user", "token", "status",
     "timestamp", "eosApi", "id", "username", "email", "role", "tool" >>

RECURSIVE Flatten(_)
Flatten(ss) == IF ss = <<>> THEN <<>> ELSE Head(ss) \o Flatten(Tail(ss))

\* JSON.stringify, as the sequence of the lexical tokens of its output (the
\* white space and punctuation between them carry no data).  A property
\* whose value is undefined is left out; undefined in an array is null.
RECURSIVE Stringify(_)
Stringify(x) ==
  CASE x.k = "undefined" -> <<>>
    [] x.k = "null"      -> <<"null">>
    [] x.k = "string"    -> <<x.v>>
    [] x.k = "number"    -> <<ToString(x.v)>>
    [] x.k = "boolean"   -> <<IF x.v THEN "true" ELSE "false">>
    [] x.k = "array"     ->
         <<"[">> \o
         Flatten([i \in 1..Len(x.v) |->
                    IF x.v[i].k = "undefined" THEN <<"null">>
                    ELSE Stringify(x.v[i])]) \o
         <<"]">>
    [] x.k = "object"    ->
         <<"{">> \o
         Flatten([i \in 1..Len(KeyOrder) |->
                    IF KeyOrder[i] \in DOMAIN x.v
                       /\ x.v[KeyOrder[i]].k # "undefined"
                    THEN <<KeyOrder[i] \o ":">> \o Stringify(x.v[KeyOrder[i]])
                    ELSE <<>>]) \o
         <<"}">>

(***************************************************************************)
(* Errors and the settled value of an async function.                      *)
(***************************************************************************)
NoError == [name |-> "none", message |-> Undefined, statusCode |-> Undefined,
            code |-> Undefined, details |-> Undefined]

EOSApiError(message, statusCode) ==
  [name |-> "EOSApiError", message |-> message, statusCode |-> statusCode,
   code |-> Undefined, details |-> Undefined]

MCPError(message, code, details) ==
  [name |-> "MCPError", message |-> message, statusCode |-> Undefined,
   code |-> code, details |-> details]

\* The error the transport library rejects with (no statusCode property).
AxiosError(message) ==
  [name |-> "AxiosError", message |-> message, statusCode |-> Undefined,
   code |-> Undefined, details |-> Undefined]

Return(v) == [threw |-> FALSE, value |-> v, error |-> NoError]
Throw(e)  == [threw |-> TRUE, value |-> Undefined, error |-> e]

(***************************************************************************)
(* The upstream service: how one HTTP request can settle in the transport  *)
(* library, before the adapter's response interceptor sees it.             *)
(***************************************************************************)
Tokens == {"abc", "xyz"}

User1 == Obj([id |-> Str("1"), username |-> Str("mp5@eigital.com")])

Fulfilled(status, data) ==
  [settled |-> "fulfilled", hasResponse |-> TRUE, status |-> status,
   data |-> data, message |-> ""]

\* A non-2xx answer: the library rejects with error.response set.
RejectedStatus(status, data) ==
  [settled |-> "rejected", hasResponse |-> TRUE, status |-> status,
   data |-> data,
   message |-> "Request failed with status code " \o ToString(status)]

\* No answer at all (connection failure, timeout): error.response is unset.
RejectedNoResponse(message) ==
  [settled |-> "rejected", hasResponse |-> FALSE, status |-> 0,
   data |-> Undefined, message |-> message]

TimeoutMessage == "timeout of 30000ms exceeded"

Failures ==
  { RejectedStatus(401, Obj([success |-> Bool(FALSE),
                             message |-> Str("Invalid credentials")])),
    RejectedStatus(503, Str("")),
    RejectedNoResponse("Network Error"),
    RejectedNoResponse(TimeoutMessage) }

\* ApiResponse<LoginResponse["data"]> bodies of POST /user/login.
LoginBodies ==
  { Obj([success |-> Bool(TRUE),
         data |-> Obj([token |-> Str(t), user |-> User1])]) :
      t \in Tokens \cup {""} }
  \cup
  { Obj([success |-> Bool(TRUE), data |-> Obj([user |-> User1])]),
    Obj([success |-> Bool(FALSE), message |-> Str("Invalid credentials")]) }

\* ApiResponse<User> bodies of GET /user/profile.
ProfileBodies ==
  { Obj([success |-> Bool(TRUE), data |-> User1]),
    Obj([success |-> Bool(FALSE), message |-> Str("Not logged in")]) }

\* ApiResponse<User[]> bodies of GET /users.
UsersBodies ==
  { Obj([success |-> Bool(TRUE), data |-> Arr(<<>>)]),
    Obj([success |-> Bool(TRUE), data |-> Arr(<<User1>>)]),
    Obj([success |-> Bool(TRUE)]) }

\* ApiResponse bodies of the invite, status and delete calls.
ApiBodies ==
  { Obj([success |-> Bool(TRUE), message |-> Str("ok")]) }

HealthBodies == { Obj([status |-> Str("ok")]) }

\* The ways a request to the given upstream path can settle.
Outcomes(path) ==
  Failures \cup
  { Fulfilled(200, b) :
      b \in CASE path = "/user/login"   -> LoginBodies
             [] path = "/user/profile" -> ProfileBodies
             [] path = "/users"        -> UsersBodies
             [] path = "/health"       -> HealthBodies
             [] OTHER                  -> ApiBodies }

(***************************************************************************)
(* EOSApiService                                                           *)
(***************************************************************************)
VARIABLES mode, authToken, pending, wire, last

vars == <<mode, authToken, pending, wire, last>>

\* A request interceptor that attaches the header only to a first token.
RequestInterceptorStale(token) ==
  IF Truthy(token) THEN Str("Bearer " \o "abc") ELSE Undefined

\* The request interceptor: the Authorization header of an outgoing request
\* (config.headers is always set by axios.create).
RequestInterceptor(token) ==
  IF Truthy(token) THEN Str("Bearer " \o ToStr(token)) ELSE Undefined

\* A response interceptor that normalises only the answers that carry a
\* response and lets the library's own error through otherwise.
ResponseInterceptorLeaky(out) ==
  IF out.settled = "fulfilled"
  THEN Return(Obj([status |-> Num(out.status), data |-> out.data]))
  ELSE IF out.hasResponse
       THEN Throw(EOSApiError(Or(Get(out.data, "message"),
                                 Str("API request failed")),
                              Num(out.status)))
       ELSE Throw(AxiosError(Str(out.message)))

\* The response interceptor: a 2xx response passes as {status, data}, every
\* rejection is rethrown as an EOSApiError.
ResponseInterceptor(out) ==
  IF out.settled = "fulfilled"
  THEN Return(Obj([status |-> Num(out.status), data |-> out.data]))
  ELSE IF out.hasResponse
       THEN Throw(EOSApiError(Or(Get(out.data, "message"),
                                 Str("API request failed")),
                              Num(out.status)))
       ELSE Throw(EOSApiError(Or(Str(out.message), Str("Network error")),
                              Num(0)))

\* catch (error) { if (error instanceof EOSApiError) throw error;
\*                 throw new EOSApiError(fallback, 500) }
Rethrow(error, fallback) ==
  IF error.name = "EOSApiError" THEN Throw(error)
  ELSE Throw(EOSApiError(Str(fallback), Num(500)))

\* login that redacts the token in the payload it returns.
loginRedacting(out) ==
  LET r == ResponseInterceptor(out) IN
  IF r.threw THEN Rethrow(r.error, "Login failed")
  ELSE LET body == Get(r.value, "data") IN
       IF Truthy(Get(Get(body, "data"), "token"))
       THEN Return([body EXCEPT !.v.data.v.token = Str("***")])
       ELSE Return(body)

\* login, from the point where POST /user/login settles: the value it
\* returns or the error it throws.
login(out) ==
  LET r == ResponseInterceptor(out) IN
  IF r.threw THEN Rethrow(r.error, "Login failed")
  ELSE Return(Get(r.value, "data"))

\* login that forgets the stored token when the login fails.
loginAuthTokenClearing(out, token) ==
  LET r == ResponseInterceptor(out) IN
  IF r.threw THEN Null
  ELSE LET body == Get(r.value, "data") IN
       IF Truthy(Get(body, "success"))
          /\ Truthy(Get(Get(body, "data"), "token"))
       THEN Get(Get(body, "data"), "token")
       ELSE token

\* The token login leaves stored: setAuthToken(response.data.data.token)
\* when response.data.success && response.data.data?.token.
loginAuthToken(out, token) ==
  LET r == ResponseInterceptor(out) IN
  IF r.threw THEN token
  ELSE LET body == Get(r.value, "data") IN
       IF Truthy(Get(body, "success"))
          /\ Truthy(Get(Get(body, "data"), "token"))
       THEN Get(Get(body, "data"), "token")
       ELSE token

getCurrentUser(out) ==
  LET r == ResponseInterceptor(out) IN
  IF r.threw THEN Rethrow(r.error, "Failed to get user profile")
  ELSE Return(Get(Get(r.value, "data"), "data"))

\* getUsers without the default for a missing data field.
getUsersNoDefault(out) ==
  LET r == ResponseInterceptor(out) IN
  IF r.threw THEN Rethrow(r.error, "Failed to get users")
  ELSE Return(Get(Get(r.value, "data"), "data"))

getUsers(out) ==
  LET r == ResponseInterceptor(out) IN
  IF r.threw THEN Rethrow(r.error, "Failed to get users")
  ELSE Return(Or(Get(Get(r.value, "data"), "data"), Arr(<<>>)))

inviteUser(out) ==
  LET r == ResponseInterceptor(out) IN
  IF r.threw THEN Rethrow(r.error, "Failed to invite user")
  ELSE Return(Get(r.value, "data"))

updateUserStatus(out) ==
  LET r == ResponseInterceptor(out) IN
  IF r.threw THEN Rethrow(r.error, "Failed to update user status")
  ELSE Return(Get(r.value, "data"))

deleteUser(out) ==
  LET r == ResponseInterceptor(out) IN
  IF r.threw THEN Rethrow(r.error, "Failed to delete user")
  ELSE Return(Get(r.value, "data"))

\* healthCheck that lets the failure of its request through.
healthCheckRethrowing(out) ==
  LET r == ResponseInterceptor(out) IN
  IF r.threw THEN Rethrow(r.error, "Health check failed")
  ELSE Return(Bool(TRUE))

healthCheck(out) ==
  LET r == ResponseInterceptor(out) IN
  IF r.threw THEN Return(Bool(FALSE)) ELSE Return(Bool(TRUE))

\* An Adapter method by name, from the point where its request settles.
adapterCall(op, out) ==
  CASE op = "login"            -> login(out)
    [] op = "getCurrentUser"   -> getCurrentUser(out)
    [] op = "getUsers"         -> getUsers(out)
    [] op = "inviteUser"       -> inviteUser(out)
    [] op = "updateUserStatus" -> updateUserStatus(out)
    [] op = "deleteUser"       -> deleteUser(out)
    [] op = "healthCheck"      -> healthCheck(out)

\* An Adapter that drops the stored token when any call is answered 401.
adapterAuthTokenLogout(op, out, token) ==
  IF op = "login" THEN loginAuthToken(out, token)
  ELSE IF out.settled = "rejected" /\ out.status = 401 THEN Null
  ELSE token

\* The stored token after the method: only login assigns it.
adapterAuthToken(op, out, token) ==
  IF op = "login" THEN loginAuthToken(out, token) ELSE token

(***************************************************************************)
(* MCPTools: the catalog and the handlers.  A handler is given from the    *)
(* point where its upstream call settles with out; toolRequest is the call *)
(* it makes before that.                                                   *)
(***************************************************************************)
\* A catalog in which one tool is registered twice and another not at all.
getToolsDuplicated ==
  << "eos_login", "eos_get_users", "eos_get_users", "eos_invite_user",
     "eos_update_user_status", "eos_delete_user", "eos_health_check" >>

getTools ==
  << "eos_login", "eos_get_current_user", "eos_get_users", "eos_invite_user",
     "eos_update_user_status", "eos_delete_user", "eos_health_check" >>

\* What the clock reads when a health check is answered.
Timestamps == {"2026-01-01T00:00:00.000Z"}

\* catch (error: any) { return { success: false,
\*   message: error.message || fallback, error: error.statusCode || 500 } }
failureEnvelope(error, fallback) ==
  Obj([success |-> Bool(FALSE),
       message |-> Or(error.message, Str(fallback)),
       error   |-> Or(error.statusCode, Num(500))])

\* The Adapter call each handler makes: the method, and the HTTP request
\* that method sends.
toolRequest(name, args) ==
  CASE name = "eos_login" ->
         [op |-> "login", method |-> "POST", url |-> "/user/login"]
    [] name = "eos_get_current_user" ->
         [op |-> "getCurrentUser", method |-> "GET", url |-> "/user/profile"]
    [] name = "eos_get_users" ->
         [op |-> "getUsers", method |-> "GET", url |-> "/users"]
    [] name = "eos_invite_user" ->
         [op |-> "inviteUser", method |-> "POST", url |-> "/users/invite"]
    [] name = "eos_update_user_status" ->
         [op |-> "updateUserStatus", method |-> "PATCH",
          url |-> "/users/" \o ToStr(Get(args, "userId")) \o "/status"]
    [] name = "eos_delete_user" ->
         [op |-> "deleteUser", method |-> "DELETE",
          url |-> "/users/" \o ToStr(Get(args, "userId"))]
    [] name = "eos_health_check" ->
         [op |-> "healthCheck", method |-> "GET", url |-> "/health"]

\* loginToolHandler without the redaction: the token is copied through.
loginToolHandlerUnredacted(args, out) ==
  LET r == login(out) IN
  IF r.threw THEN Return(failureEnvelope(r.error, "Login failed"))
  ELSE Return(Obj([success |-> Bool(TRUE),
                   message |-> Str("Login successful"),
                   data |-> Obj([user  |-> Get(Get(r.value, "data"), "user"),
                                 token |-> Get(Get(r.value, "data"),
                                               "token")])]))

loginToolHandler(args, out) ==
  LET r == login(out) IN
  IF r.threw THEN Return(failureEnvelope(r.error, "Login failed"))
  ELSE Return(Obj([success |-> Bool(TRUE),
                   message |-> Str("Login successful"),
                   data |-> Obj([user  |-> Get(Get(r.value, "data"), "user"),
                                 token |->
                                   IF Truthy(Get(Get(r.value, "data"), "token"))
                                   THEN Str("***") ELSE Undefined])]))

\* currentUserToolHandler without its catch block.
currentUserToolHandlerUncaught(args, out) ==
  LET r == getCurrentUser(out) IN
  IF r.threw THEN Throw(r.error)
  ELSE Return(Obj([success |-> Bool(TRUE),
                   message |-> Str("User profile retrieved successfully"),
                   data |-> r.value]))

currentUserToolHandler(args, out) ==
  LET r == getCurrentUser(out) IN
  IF r.threw THEN Return(failureEnvelope(r.error, "Failed to get user profile"))
  ELSE Return(Obj([success |-> Bool(TRUE),
                   message |-> Str("User profile retrieved successfully"),
                   data |-> r.value]))

usersToolHandler(args, out) ==
  LET r == getUsers(out) IN
  IF r.threw THEN Return(failureEnvelope(r.error, "Failed to get users"))
  ELSE Return(Obj([success |-> Bool(TRUE),
                   message |-> Str("Retrieved " \o ToStr(Length(r.value))
                                   \o " users"),
                   data |-> r.value]))

inviteUserToolHandler(args, out) ==
  LET r == inviteUser(out) IN
  IF r.threw THEN Return(failureEnvelope(r.error, "Failed to invite user"))
  ELSE Return(Obj([success |-> Bool(TRUE),
                   message |-> Str("User invited successfully"),
                   data |-> r.value]))

updateUserStatusToolHandler(args, out) ==
  LET r == updateUserStatus(out) IN
  IF r.threw
  THEN Return(failureEnvelope(r.error, "Failed to update user status"))
  ELSE Return(Obj([success |-> Bool(TRUE),
                   message |-> Str("User status updated to "
                                   \o ToStr(Get(args, "status"))),
                   data |-> r.value]))

deleteUserToolHandler(args, out) ==
  LET r == deleteUser(out) IN
  IF r.threw THEN Return(failureEnvelope(r.error, "Failed to delete user"))
  ELSE Return(Obj([success |-> Bool(TRUE),
                   message |-> Str("User deleted successfully"),
                   data |-> r.value]))

\* A health tool that reports an unhealthy upstream as a failure.
healthCheckToolHandlerStrict(args, out, now) ==
  LET r == healthCheck(out) IN
  IF r.threw \/ ~Truthy(r.value)
  THEN Return(failureEnvelope(r.error, "Health check failed"))
  ELSE Return(Obj([success |-> Bool(TRUE),
                   message |-> Str("EOS API is healthy"),
                   data |-> Obj([status |-> Str("healthy"),
                                 timestamp |-> Str(now)])]))

healthCheckToolHandler(args, out, now) ==
  LET r == healthCheck(out) IN
  IF r.threw THEN Return(failureEnvelope(r.error, "Health check failed"))
  ELSE Return(Obj([success |-> Bool(TRUE),
                   message |-> Str(IF Truthy(r.value) THEN "EOS API is healthy"
                                   ELSE "EOS API is not responding"),
                   data |-> Obj([status |-> Str(IF Truthy(r.value)
                                                THEN "healthy"
                                                ELSE "unhealthy"),
                                 timestamp |-> Str(now)])]))

\* tool.handler(args), resumed with the outcome of its upstream call.
handler(name, args, out, now) ==
  CASE name = "eos_login"              -> loginToolHandler(args, out)
    [] name = "eos_get_current_user"   -> currentUserToolHandler(args, out)
    [] name = "eos_get_users"          -> usersToolHandler(args, out)
    [] name = "eos_invite_user"        -> inviteUserToolHandler(args, out)
    [] name = "eos_update_user_status" -> updateUserStatusToolHandler(args, out)
    [] name = "eos_delete_user"        -> deleteUserToolHandler(args, out)
    [] name = "eos_health_check"       -> healthCheckToolHandler(args, out, now)

(***************************************************************************)
(* State.                                                                  *)
(*   mode      how the process was started: "mcp" or "rest" (index.ts)     *)
(*   authToken EOSApiService.authToken                                     *)
(*   pending   the call chains suspended on their upstream call (a bag)    *)
(*   wire      the headers of the request most recently put on the wire    *)
(*   last      the request most recently answered, with its answer; its    *)
(*             transport names the handler that answered: "mcp" (CallTool),*)
(*             "mcp-list" (ListTools) or "rest"                            *)
(***************************************************************************)
NoOutcome ==
  [settled |-> "none", hasResponse |-> FALSE, status |-> 0,
   data |-> Undefined, message |-> ""]

NoWire == [Authorization |-> Undefined]

NoLast ==
  [transport |-> "none", name |-> "", args |-> Undefined, calls |-> 0,
   out |-> NoOutcome, adapter |-> Return(Undefined), result |-> Undefined,
   response |-> [threw |-> FALSE, text |-> <<>>, error |-> NoError]]

InFlight == BagCardinality(pending)

Init ==
  /\ mode \in {"mcp", "rest"}
  /\ authToken = Null
  /\ pending = EmptyBag
  /\ wire = NoWire
  /\ last = NoLast

\* this.api.<method>(url): the request interceptor runs and the request
\* leaves; the call chain, one upstream call older, is suspended until the
\* request settles.
send(call) ==
  /\ InFlight < MaxInFlight
  /\ pending' = pending (+) SetToBag({[call EXCEPT !.calls = @ + 1]})
  /\ wire' = [Authorization |-> RequestInterceptor(authToken)]

(***************************************************************************)
(* EOSMCPServer: the CallTool request handler.                             *)
(***************************************************************************)
ToolNames == {getTools[i] : i \in DOMAIN getTools} \cup {"eos_unknown"}

ToolArgs(name) ==
  CASE name = "eos_login" ->
         { Obj([username |-> Str("mp5@eigital.com"),
                password |-> Str("Test@055")]),
           Obj([username |-> Str("mp5@eigital.com")]) }
    [] name = "eos_invite_user" ->
         { Obj([email |-> Str("a@b.c"), role |-> Str("user")]),
           Obj([email |-> Str("a@b.c")]) }
    [] name = "eos_update_user_status" ->
         { Obj([userId |-> Str("u1"), status |-> Str("inactive")]),
           Obj([userId |-> Str("u1")]) }
    [] name = "eos_delete_user" ->
         { Obj([userId |-> Str("u1")]), EmptyObj }
    [] OTHER -> { EmptyObj }

\* tools.find(t => t.name === name)
findTool(name) == \E i \in DOMAIN getTools : getTools[i] = name

\* A dispatcher that lets a handler's exception through as it is.
callToolResultRethrowing(name, h) ==
  IF h.threw
  THEN [threw |-> TRUE, text |-> <<>>, error |-> h.error]
  ELSE [threw |-> FALSE, text |-> Stringify(h.value), error |-> NoError]

\* The text content the dispatcher returns for a handler's settled value,
\* or the TOOL_EXECUTION_ERROR it throws for a handler's exception.
callToolResult(name, h) ==
  IF h.threw
  THEN [threw |-> TRUE, text |-> <<>>,
        error |-> MCPError(Or(h.error.message, Str("Tool execution failed")),
                           Str("TOOL_EXECUTION_ERROR"),
                           Obj([tool |-> Str(name),
                                error |-> h.error.message]))]
  ELSE [threw |-> FALSE, text |-> Stringify(h.value), error |-> NoError]

\* The ListTools request handler: the catalog is built anew and the name of
\* each descriptor is returned, in order (descriptions and schemas are
\* literals that go with the name).
ListTools ==
  /\ mode = "mcp"
  /\ last' = [transport |-> "mcp-list", name |-> "tools/list",
              args |-> Undefined, calls |-> 0, out |-> NoOutcome,
              adapter |-> Return(Undefined), result |-> Undefined,
              response |-> [threw |-> FALSE,
                            text |-> [i \in DOMAIN getTools |-> getTools[i]],
                            error |-> NoError]]
  /\ UNCHANGED <<mode, authToken, pending, wire>>

\* A tool call arrives.  Unknown name: TOOL_NOT_FOUND, nothing else happens.
\* Known name: the handler runs up to its Adapter call.
CallTool(name, args) ==
  /\ mode = "mcp"
  /\ IF ~findTool(name)
     THEN /\ last' = [transport |-> "mcp", name |-> name, args |-> args,
                      calls |-> 0, out |-> NoOutcome,
                      adapter |-> Return(Undefined), result |-> Undefined,
                      response |->
                        [threw |-> TRUE, text |-> <<>>,
                         error |-> MCPError(Str("Tool '" \o name
                                                \o "' not found"),
                                            Str("TOOL_NOT_FOUND"),
                                            Undefined)]]
          /\ UNCHANGED <<pending, wire>>
     ELSE /\ send([name |-> name, args |-> args, calls |-> 0])
          /\ UNCHANGED last
  /\ UNCHANGED <<mode, authToken>>

\* A tool call whose failed upstream request is sent a second time before
\* the failure is reported.
ToolSettleRetrying(call, out, now) ==
  /\ mode = "mcp"
  /\ BagIn(call, pending)
  /\ LET req == toolRequest(call.name, call.args)
         h   == handler(call.name, call.args, out, now)
     IN  /\ out \in Outcomes(req.url)
         /\ IF out.settled = "rejected" /\ call.calls < 2
            THEN /\ pending' = (pending (-) SetToBag({call}))
                                 (+) SetToBag({[call EXCEPT !.calls = @ + 1]})
                 /\ wire' = [Authorization |-> RequestInterceptor(authToken)]
                 /\ UNCHANGED <<authToken, last>>
            ELSE /\ authToken' = adapterAuthToken(req.op, out, authToken)
                 /\ last' = [transport |-> "mcp", name |-> call.name,
                             args |-> call.args, calls |-> call.calls,
                             out |-> out,
                             adapter |-> adapterCall(req.op, out),
                             result |-> h.value,
                             response |-> callToolResult(call.name, h)]
                 /\ pending' = pending (-) SetToBag({call})
                 /\ UNCHANGED wire
  /\ UNCHANGED mode

\* The upstream call of a suspended tool call settles: the Adapter method,
\* the handler and the dispatcher run to the end.
ToolSettle(call, out, now) ==
  /\ mode = "mcp"
  /\ BagIn(call, pending)
  /\ LET req == toolRequest(call.name, call.args)
         h   == handler(call.name, call.args, out, now)
     IN  /\ out \in Outcomes(req.url)
         /\ authToken' = adapterAuthToken(req.op, out, authToken)
         /\ last' = [transport |-> "mcp", name |-> call.name,
                     args |-> call.args, calls |-> call.calls,
                     out |-> out,
                     adapter |-> adapterCall(req.op, out),
                     result |-> h.value,
                     response |-> callToolResult(call.name, h)]
  /\ pending' = pending (-) SetToBag({call})
  /\ UNCHANGED <<mode, wire>>
(***************************************************************************)
(* RestApiServer: the routes.  A request is {params, body}.                *)
(***************************************************************************)
Routes ==
  { "GET /health", "POST /auth/login", "GET /users/current", "GET /users",
    "POST /users/invite", "PATCH /users/:userId/status",
    "DELETE /users/:userId" }

RouteNames == Routes \cup {"GET /unknown"}

Req(params, body) == Obj([params |-> params, body |-> body])

RouteReqs(route) ==
  CASE route = "POST /auth/login" ->
         { Req(EmptyObj, Obj([username |-> Str("mp5@eigital.com"),
                              password |-> Str("Test@055")])),
           Req(EmptyObj, Obj([username |-> Str("mp5@eigital.com")])),
           Req(EmptyObj, Obj([username |-> Str(""),
                              password |-> Str("Test@055")])) }
    [] route = "POST /users/invite" ->
         { Req(EmptyObj, Obj([email |-> Str("a@b.c"), role |-> Str("user")])),
           Req(EmptyObj, Obj([email |-> Str("a@b.c")])),
           Req(EmptyObj, Obj([role |-> Str("user")])) }
    [] route = "PATCH /users/:userId/status" ->
         { Req(Obj([userId |-> Str("u1")]), Obj([status |-> Str(st)])) :
             st \in {"active", "inactive", "deleted"} }
         \cup { Req(Obj([userId |-> Str("u1")]), EmptyObj) }
    [] route = "DELETE /users/:userId" ->
         { Req(Obj([userId |-> Str("u1")]), EmptyObj) }
    [] OTHER -> { Req(EmptyObj, EmptyObj) }

\* The request-shape check without the test that status is one of the two
\* allowed values.
routeValidationAnyStatus(route, req) ==
  LET body == Get(req, "body") IN
  CASE route = "POST /auth/login" ->
         IF ~Truthy(Get(body, "username")) \/ ~Truthy(Get(body, "password"))
         THEN "Username and password are required" ELSE ""
    [] route = "POST /users/invite" ->
         IF ~Truthy(Get(body, "email")) \/ ~Truthy(Get(body, "role"))
         THEN "Email and role are required" ELSE ""
    [] route = "PATCH /users/:userId/status" ->
         IF ~Truthy(Get(body, "status"))
         THEN "Valid status (active/inactive) is required" ELSE ""
    [] OTHER -> ""

\* The request-shape check of a route: the 400 message, or "" when the
\* request passes (or the route checks nothing).
routeValidation(route, req) ==
  LET body == Get(req, "body") IN
  CASE route = "POST /auth/login" ->
         IF ~Truthy(Get(body, "username")) \/ ~Truthy(Get(body, "password"))
         THEN "Username and password are required" ELSE ""
    [] route = "POST /users/invite" ->
         IF ~Truthy(Get(body, "email")) \/ ~Truthy(Get(body, "role"))
         THEN "Email and role are required" ELSE ""
    [] route = "PATCH /users/:userId/status" ->
         IF ~Truthy(Get(body, "status"))
            \/ Get(body, "status") \notin {Str("active"), Str("inactive")}
         THEN "Valid status (active/inactive) is required" ELSE ""
    [] OTHER -> ""

\* The Adapter call each route makes.
routeRequest(route, req) ==
  LET userId == ToStr(Get(Get(req, "params"), "userId")) IN
  CASE route = "GET /health" ->
         [op |-> "healthCheck", method |-> "GET", url |-> "/health"]
    [] route = "POST /auth/login" ->
         [op |-> "login", method |-> "POST", url |-> "/user/login"]
    [] route = "GET /users/current" ->
         [op |-> "getCurrentUser", method |-> "GET", url |-> "/user/profile"]
    [] route = "GET /users" ->
         [op |-> "getUsers", method |-> "GET", url |-> "/users"]
    [] route = "POST /users/invite" ->
         [op |-> "inviteUser", method |-> "POST", url |-> "/users/invite"]
    [] route = "PATCH /users/:userId/status" ->
         [op |-> "updateUserStatus", method |-> "PATCH",
          url |-> "/users/" \o userId \o "/status"]
    [] route = "DELETE /users/:userId" ->
         [op |-> "deleteUser", method |-> "DELETE", url |-> "/users/" \o userId]

\* res.status(status).json(body)
Respond(status, body) ==
  [threw |-> FALSE, status |-> status, body |-> body, text |-> Stringify(body),
   error |-> NoError]

\* catch (error: any) { res.status(error.statusCode || 500).json({
\*   success: false, message: error.message || fallback,
\*   error: error.statusCode || 500 }) }
routeFailure(error, fallback) ==
  Respond(Or(error.statusCode, Num(500)).v, failureEnvelope(error, fallback))

\* What a route answers once its Adapter call has settled with r.
routeResponse(route, r, now) ==
  CASE route = "GET /health" ->
         IF r.threw
         THEN Respond(500, Obj([status |-> Str("error"),
                                message |-> Str("Health check failed"),
                                error |-> r.error.message]))
         ELSE Respond(200, Obj([status |-> Str("ok"),
                                timestamp |-> Str(now),
                                eosApi |-> Str(IF Truthy(r.value)
                                               THEN "connected"
                                               ELSE "disconnected")]))
    [] route = "POST /auth/login" ->
         IF r.threw THEN routeFailure(r.error, "Login failed")
         ELSE Respond(200, r.value)
    [] route = "GET /users/current" ->
         IF r.threw THEN routeFailure(r.error, "Failed to get current user")
         ELSE Respond(200, Obj([success |-> Bool(TRUE), data |-> r.value]))
    [] route = "GET /users" ->
         IF r.threw THEN routeFailure(r.error, "Failed to get users")
         ELSE Respond(200, Obj([success |-> Bool(TRUE), data |-> r.value]))
    [] route = "POST /users/invite" ->
         IF r.threw THEN routeFailure(r.error, "Failed to invite user")
         ELSE Respond(200, r.value)
    [] route = "PATCH /users/:userId/status" ->
         IF r.threw THEN routeFailure(r.error, "Failed to update user status")
         ELSE Respond(200, r.value)
    [] route = "DELETE /users/:userId" ->
         IF r.threw THEN routeFailure(r.error, "Failed to delete user")
         ELSE Respond(200, r.value)

\* An HTTP request arrives.  No such route: 404.  Request-shape check
\* failed: 400.  Otherwise the route runs up to its Adapter call.
RestRequest(route, req) ==
  /\ mode = "rest"
  /\ IF route \notin Routes \/ routeValidation(route, req) # ""
     THEN /\ last' = [transport |-> "rest", name |-> route, args |-> req,
                      calls |-> 0, out |-> NoOutcome,
                      adapter |-> Return(Undefined), result |-> Undefined,
                      response |->
                        IF route \notin Routes
                        THEN Respond(404,
                               Obj([success |-> Bool(FALSE),
                                    message |-> Str("Route not found")]))
                        ELSE Respond(400,
                               Obj([success |-> Bool(FALSE),
                                    message |->
                                      Str(routeValidation(route, req))]))]
          /\ UNCHANGED <<pending, wire>>
     ELSE /\ send([name |-> route, args |-> req, calls |-> 0])
          /\ UNCHANGED last
  /\ UNCHANGED <<mode, authToken>>

\* The upstream call of a suspended route settles: the Adapter method and
\* the route run to the end.
RestSettle(call, out, now) ==
  /\ mode = "rest"
  /\ BagIn(call, pending)
  /\ LET req == routeRequest(call.name, call.args)
         r   == adapterCall(req.op, out)
     IN  /\ out \in Outcomes(req.url)
         /\ authToken' = adapterAuthToken(req.op, out, authToken)
         /\ last' = [transport |-> "rest", name |-> call.name,
                     args |-> call.args, calls |-> call.calls,
                     out |-> out, adapter |-> r, result |-> Undefined,
                     response |-> routeResponse(call.name, r, now)]
  /\ pending' = pending (-) SetToBag({call})
  /\ UNCHANGED <<mode, wire>>

\* clearAuthToken(), called by the embedding program.
ClearAuthToken ==
  /\ authToken' = Null
  /\ UNCHANGED <<mode, pending, wire, last>>

AllOutcomes ==
  UNION { Outcomes(p) :
            p \in {"/user/login", "/user/profile", "/users", "/health", ""} }

Next ==
  \/ \E name \in ToolNames : \E args \in ToolArgs(name) : CallTool(name, args)
  \/ \E call \in BagToSet(pending) : \E out \in AllOutcomes :
       \E now \in Timestamps : ToolSettle(call, out, now)
  \/ \E route \in RouteNames : \E req \in RouteReqs(route) :
       RestRequest(route, req)
  \/ \E call \in BagToSet(pending) : \E out \in AllOutcomes :
       \E now \in Timestamps : RestSettle(call, out, now)
  \/ ClearAuthToken
  \/ ListTools

Spec == Init /\ [][Next]_vars
(***************************************************************************)
(* Properties.                                                             *)
(***************************************************************************)
Range(s) == {s[i] : i \in DOMAIN s}

\* The token field of a login response body, undefined when it has none.
BodyToken(out) == Get(Get(out.data, "data"), "token")

LoginNames == {"eos_login", "POST /auth/login"}

\* C1: when upstream answers a login with a token, the data the eos_login
\* handler returns has token "***" (no token field when upstream sent no
\* token), the raw token is no part of the text the dispatcher returns, and
\* the text is the same whatever the raw token was.
C1_LoginToolRedactsToken ==
  (last.transport = "mcp" /\ last.name = "eos_login"
     /\ last.out.settled = "fulfilled") =>
    LET tok  == BodyToken(last.out)
        data == Get(last.result, "data")
    IN  IF Truthy(tok)
        THEN /\ Get(data, "token") = Str("***")
             /\ ~last.response.threw
             /\ tok.v \notin Range(last.response.text)
             /\ \A t \in Tokens :
                  callToolResult(last.name,
                    handler(last.name, last.args,
                            [last.out EXCEPT !.data.v.data.v.token = Str(t)],
                            "")).text
                  = last.response.text
        ELSE /\ Get(data, "token") = Undefined
             /\ "token:" \notin Range(last.response.text)

C1_Witness ==
  /\ last.transport = "mcp" /\ last.name = "eos_login"
  /\ last.out.settled = "fulfilled"
  /\ BodyToken(last.out) = Str("abc")
  /\ "***" \in Range(last.response.text)
  /\ authToken = Str("abc")

\* C2 (as claimed): the payload login returns never holds the raw token, and
\* neither does the body POST /auth/login answers with.
C2_LoginPayloadRedacted ==
  (last.name \in LoginNames /\ last.out.settled = "fulfilled") =>
    /\ Get(Get(last.adapter.value, "data"), "token")
         \notin {Str(t) : t \in Tokens}
    /\ last.transport = "rest" =>
         \A t \in Tokens : t \notin Range(last.response.text)

\* C2 (amended): the payload login returns is the upstream body unchanged,
\* raw token included, and POST /auth/login answers 200 with that payload as
\* its body; only the eos_login handler redacts.
C2_LoginPayloadIsUpstreamBody ==
  (last.name \in LoginNames /\ last.out.settled = "fulfilled") =>
    /\ ~last.adapter.threw
    /\ last.adapter.value = last.out.data
    /\ last.transport = "rest" =>
         /\ last.response.status = 200
         /\ last.response.body = last.out.data
         /\ Truthy(BodyToken(last.out)) =>
              BodyToken(last.out).v \in Range(last.response.text)

C2_Witness ==
  /\ last.transport = "rest" /\ last.name = "POST /auth/login"
  /\ BodyToken(last.out) = Str("xyz")
  /\ "xyz" \in Range(last.response.text)

\* A step in which a suspended login resumes with success = true and a token.
LoginSucceeds ==
  /\ BagCardinality(pending') < BagCardinality(pending)
  /\ last'.name \in LoginNames
  /\ last'.out.settled = "fulfilled"
  /\ Truthy(Get(last'.out.data, "success"))
  /\ Truthy(BodyToken(last'.out))

\* A step in which a request is put on the wire.
Sends == BagCardinality(pending') > BagCardinality(pending)

\* A clearAuthToken step.
Clears == authToken' = Null /\ UNCHANGED <<pending, last>>

\* C3: a login that completes with success = true and a token t stores t;
\* every request sent carries "Bearer " + the stored token, and no bearer
\* credential when no token is stored; the stored token changes only by such
\* a login or by clearAuthToken.
C3_BearerFollowsToken ==
  [][ /\ LoginSucceeds => authToken' = BodyToken(last'.out)
      /\ Sends => /\ authToken' = authToken
                  /\ wire'.Authorization =
                       IF authToken = Null THEN Undefined
                       ELSE Str("Bearer " \o authToken.v)
      /\ authToken' # authToken => (LoginSucceeds \/ Clears) ]_vars

C3_Witness ==
  /\ authToken = Str("xyz")
  /\ wire.Authorization = Str("Bearer xyz")
  /\ InFlight > 0

\* A step in which a suspended call chain resumes and is answered.
Settles == BagCardinality(pending') < BagCardinality(pending)

\* Upstream turns the credentials down: with a non-2xx answer, or with a 2xx
\* answer whose body has success = false.
LoginRejected(out) ==
  \/ out.settled = "rejected" /\ out.hasResponse
  \/ out.settled = "fulfilled" /\ ~Truthy(Get(out.data, "success"))

\* C4 (as claimed): when upstream rejects the credentials of a login, in
\* whatever form, the eos_login handler returns success = false, POST
\* /auth/login answers with the upstream status, login raises the body's
\* message on a 401 that has one, and the stored token is unchanged.
C4_RejectedLogin ==
  [][ (Settles /\ last'.name \in LoginNames /\ LoginRejected(last'.out)) =>
        /\ last'.transport = "mcp" =>
             Get(last'.result, "success") = Bool(FALSE)
        /\ last'.transport = "rest" =>
             last'.response.status = last'.out.status
        /\ (last'.out.settled = "rejected" /\ last'.out.status = 401
              /\ Truthy(Get(last'.out.data, "message"))) =>
             /\ last'.adapter.threw
             /\ last'.adapter.error.message = Get(last'.out.data, "message")
        /\ authToken' = authToken ]_vars

HealthNames == {"eos_health_check", "GET /health"}

\* C5: healthCheck never raises; it returns true exactly when GET /health
\* was answered 2xx and false for every failure.
C5_HealthCheckNeverRaises ==
  (last.name \in HealthNames /\ last.calls > 0) =>
    /\ ~last.adapter.threw
    /\ last.adapter.value = Bool(last.out.settled = "fulfilled")

C5_Witness ==
  /\ last.name \in HealthNames
  /\ last.out = RejectedNoResponse(TimeoutMessage)
  /\ last.adapter = Return(Bool(FALSE))

UsersNames == {"eos_get_users", "GET /users"}

\* C6: on a 2xx answer to GET /users, getUsers returns the body's data when
\* the body has a data field and the empty sequence when it has none, without
\* an error; the eos_get_users handler then returns success = true with an
\* empty list.
C6_GetUsersDefaultsToEmpty ==
  (last.name \in UsersNames /\ last.out.settled = "fulfilled") =>
    /\ ~last.adapter.threw
    /\ IF "data" \in DOMAIN last.out.data.v
       THEN last.adapter.value = last.out.data.v.data
       ELSE /\ last.adapter.value = Arr(<<>>)
            /\ last.transport = "mcp" =>
                 /\ ~last.response.threw
                 /\ Get(last.result, "success") = Bool(TRUE)
                 /\ Get(last.result, "data") = Arr(<<>>)

C6_Witness ==
  /\ last.transport = "mcp" /\ last.name = "eos_get_users"
  /\ last.out.settled = "fulfilled"
  /\ "data" \notin DOMAIN last.out.data.v
  /\ Get(last.result, "data") = Arr(<<>>)

\* A REST request that fails the request-shape validation.
InvalidShape(route, req) ==
  LET body == Get(req, "body").v IN
  \/ route = "POST /auth/login"
       /\ ("username" \notin DOMAIN body \/ "password" \notin DOMAIN body)
  \/ route = "POST /users/invite"
       /\ ("email" \notin DOMAIN body \/ "role" \notin DOMAIN body)
  \/ route = "PATCH /users/:userId/status"
       /\ ("status" \notin DOMAIN body
           \/ body.status \notin {Str("active"), Str("inactive")})

\* C7: a REST request that fails the request-shape validation is answered
\* 400 with success = false and never reaches the Adapter: it made no
\* upstream call, and no such request is ever suspended on one.
C7_InvalidRestRequestIs400 ==
  mode = "rest" =>
    /\ (last.transport = "rest" /\ InvalidShape(last.name, last.args)) =>
         /\ last.response.status = 400
         /\ Get(last.response.body, "success") = Bool(FALSE)
         /\ last.calls = 0
         /\ last.out = NoOutcome
    /\ \A c \in BagToSet(pending) : ~InvalidShape(c.name, c.args)

C7_Witness ==
  /\ last.transport = "rest"
  /\ last.name = "PATCH /users/:userId/status"
  /\ Get(Get(last.args, "body"), "status") = Str("deleted")
  /\ last.response.status = 400

\* C8: a call of a registered tool returns a text that is an envelope with a
\* boolean success field, whatever upstream answered; a call of any other
\* name raises TOOL_NOT_FOUND, runs no handler and makes no Adapter call.
C8_InvokeEnvelopeOrNotFound ==
  mode = "mcp" =>
    /\ (last.transport = "mcp" /\ last.name \in Range(getTools)) =>
         /\ ~last.response.threw
         /\ Len(last.response.text) >= 3
         /\ last.response.text[1] = "{"
         /\ last.response.text[2] = "success:"
         /\ last.response.text[3] \in {"true", "false"}
    /\ (last.transport = "mcp" /\ last.name \notin Range(getTools)) =>
         /\ last.response.threw
         /\ last.response.error.name = "MCPError"
         /\ last.response.error.code = Str("TOOL_NOT_FOUND")
         /\ last.calls = 0
         /\ last.out = NoOutcome
         /\ last.result = Undefined
    /\ \A c \in BagToSet(pending) : c.name \in Range(getTools)

C8_Witness ==
  /\ last.transport = "mcp" /\ last.name = "eos_get_current_user"
  /\ last.out.settled = "rejected"
  /\ ~last.response.threw
  /\ last.response.text[3] = "false"

\* The Adapter method the answered request called.
LastOp ==
  IF last.transport = "mcp" THEN toolRequest(last.name, last.args).op
  ELSE routeRequest(last.name, last.args).op

\* C9: every failed upstream call of login, getCurrentUser, getUsers,
\* inviteUser, updateUserStatus or deleteUser reaches the caller as an
\* EOSApiError with a message and with statusCode the upstream status, or 0
\* when there was no response.
C9_FailuresAreEOSApiErrors ==
  (last.calls > 0 /\ LastOp # "healthCheck" /\ last.out.settled = "rejected")
  =>
    /\ last.adapter.threw
    /\ last.adapter.error.name = "EOSApiError"
    /\ last.adapter.error.message.k = "string"
    /\ last.adapter.error.statusCode =
         Num(IF last.out.hasResponse THEN last.out.status ELSE 0)

C9_Witness ==
  /\ last.calls > 0 /\ LastOp = "deleteUser"
  /\ last.out = RejectedNoResponse("Network Error")
  /\ last.adapter.threw
  /\ last.adapter.error.statusCode = Num(0)

\* C10 (as claimed): when the Adapter raises an error with message m and
\* statusCode s, s = 0 included, the tool handler returns {success: false,
\* message: m, error: s} and the REST route answers with status s and that
\* body.
C10_ErrorEnvelopeKeepsStatus ==
  (last.calls > 0 /\ last.adapter.threw) =>
    LET m == last.adapter.error.message
        s == last.adapter.error.statusCode
        envelope == Obj([success |-> Bool(FALSE), message |-> m, error |-> s])
    IN  /\ last.transport = "mcp" =>
             ~last.response.threw /\ last.result = envelope
        /\ last.transport = "rest" =>
             last.response.status = s.v /\ last.response.body = envelope

\* The required fields each tool declares in its inputSchema.
RequiredFields(name) ==
  CASE name = "eos_login"              -> {"username", "password"}
    [] name = "eos_invite_user"        -> {"email", "role"}
    [] name = "eos_update_user_status" -> {"userId", "status"}
    [] name = "eos_delete_user"        -> {"userId"}
    [] OTHER                           -> {}

\* A tool call with a required field missing or empty.
MissingRequired(name, args) ==
  \E f \in RequiredFields(name) : ~Truthy(Get(args, f))

\* C11 (as claimed): a tool call with a required field missing or empty
\* fails validation in the handler and never reaches the Adapter: it made no
\* upstream call, and no such call is ever suspended on one.
C11_ToolsValidateRequiredFields ==
  mode = "mcp" =>
    /\ (last.transport = "mcp" /\ MissingRequired(last.name, last.args)) =>
         last.calls = 0 /\ last.out = NoOutcome
    /\ \A c \in BagToSet(pending) : ~MissingRequired(c.name, c.args)

\* C12: the stored token changes only when a login succeeds with a token or
\* on clearAuthToken.  Sending a request, the completion of any other
\* Adapter method, a login that fails or returns no token, and a request
\* answered without an Adapter call all leave it unchanged.
C12_OnlyLoginAndClearChangeToken ==
  [][ /\ Sends => authToken' = authToken
      /\ (Settles /\ ~LoginSucceeds) => authToken' = authToken
      /\ (~Settles /\ ~Sends /\ ~Clears) => authToken' = authToken ]_vars

C12_Witness ==
  /\ authToken = Str("abc")
  /\ last.calls > 0
  /\ last.name \notin LoginNames
  /\ last.out.settled = "rejected"
  /\ last.out.status = 401

\* C13: whatever was invoked before, and with whatever result, listing the
\* tools returns the same seven names in the same order, no name twice.
C13_CatalogIsStatic ==
  last.transport = "mcp-list" =>
    /\ ~last.response.threw
    /\ last.response.text =
         << "eos_login", "eos_get_current_user", "eos_get_users",
            "eos_invite_user", "eos_update_user_status", "eos_delete_user",
            "eos_health_check" >>
    /\ \A i, j \in DOMAIN last.response.text :
         last.response.text[i] = last.response.text[j] => i = j

C13_Witness ==
  /\ last.transport = "mcp-list"
  /\ Len(last.response.text) = 7
  /\ authToken = Str("abc")
  /\ InFlight > 0

\* C14: no retries.  A call chain never has more than one upstream request
\* behind it, suspended or answered; and when its request fails, the step
\* that resumes it sends nothing and reports the failure (healthCheck as
\* false, every other Adapter method as a raised error).
C14_NoRetries ==
  [][ /\ \A c \in BagToSet(pending') : c.calls = 1
      /\ last'.calls <= 1
      /\ (Settles /\ last'.out.settled = "rejected") =>
           /\ BagCardinality(pending') = BagCardinality(pending) - 1
           /\ wire' = wire
           /\ last'.calls = 1
           /\ \/ last'.adapter.threw
              \/ last'.adapter = Return(Bool(FALSE)) ]_vars

C14_Witness ==
  /\ last.calls = 1
  /\ last.out = RejectedStatus(503, Str(""))
  /\ last.adapter.threw
  /\ InFlight = 0

\* Exceptions a handler could throw: a runtime error, an Adapter error, an
\* error without a message.
HandlerErrors ==
  { [name |-> "TypeError",
     message |-> Str("Cannot read properties of undefined"),
     statusCode |-> Undefined, code |-> Undefined, details |-> Undefined],
    EOSApiError(Str("Invalid credentials"), Num(401)),
    [name |-> "Error", message |-> Str(""),
     statusCode |-> Undefined, code |-> Undefined, details |-> Undefined] }

\* The two ways a call of a registered tool can end.
IsEnvelope(resp, value) ==
  ~resp.threw /\ resp.error = NoError /\ resp.text = Stringify(value)

IsDispatchError(resp, name, e) ==
  /\ resp.threw
  /\ resp.text = <<>>
  /\ resp.error.name = "MCPError"
  /\ resp.error.code = Str("TOOL_EXECUTION_ERROR")
  /\ resp.error.details = Obj([tool |-> Str(name), error |-> e.message])

\* C15: a call of a registered tool ends either with the text that is the
\* JSON of the value its handler returned, or with one TOOL_EXECUTION_ERROR
\* carrying {tool, error}, never both; whatever a handler throws, the caller
\* gets that dispatch error and not the handler's exception.
C15_EnvelopeOrDispatchError ==
  (last.transport = "mcp" /\ last.name \in Range(getTools)) =>
    /\ IsEnvelope(last.response, last.result)
         # (last.response.threw
            /\ last.response.error.code = Str("TOOL_EXECUTION_ERROR"))
    /\ \A e \in HandlerErrors :
         LET resp == callToolResult(last.name, Throw(e)) IN
         /\ IsDispatchError(resp, last.name, e)
         /\ ~IsEnvelope(resp, last.result)
         /\ resp.error # e
    /\ LET resp == callToolResult(last.name, Return(last.result)) IN
       /\ IsEnvelope(resp, last.result)
       /\ resp = last.response

C15_Witness ==
  /\ last.transport = "mcp" /\ last.name = "eos_update_user_status"
  /\ last.out.settled = "fulfilled"
  /\ IsEnvelope(last.response, last.result)
  /\ "User status updated to inactive" \in Range(last.response.text)

\* The number of logins suspended on their upstream call in a bag of calls.
LoginsIn(calls) ==
  BagCardinality([c \in {x \in DOMAIN calls : x.name \in LoginNames} |->
                    calls[c]])

\* The program used with at most one login in flight at a time and without
\* clearAuthToken; any number of other requests (up to MaxInFlight) may be
\* in flight with the login.
NextOneLogin ==
  \/ \E name \in ToolNames : \E args \in ToolArgs(name) :
       CallTool(name, args) /\ LoginsIn(pending') <= 1
  \/ \E call \in BagToSet(pending) : \E out \in AllOutcomes :
       \E now \in Timestamps : ToolSettle(call, out, now)
  \/ \E route \in RouteNames : \E req \in RouteReqs(route) :
       RestRequest(route, req) /\ LoginsIn(pending') <= 1
  \/ \E call \in BagToSet(pending) : \E out \in AllOutcomes :
       \E now \in Timestamps : RestSettle(call, out, now)
  \/ ListTools

SpecOneLogin == Init /\ [][NextOneLogin]_vars

\* A step in which a suspended login resumes, successfully or not.
LoginSettles == Settles /\ last'.name \in LoginNames

\* C16: with at most one login in flight and no clear, under every
\* interleaving with other requests: the step in which a login completes
\* successfully leaves that login's token stored, and every step that is not
\* the completion of a login (a request starting, another request
\* completing) leaves the stored token as it is.
C16_TokenIsLastLoginsToken ==
  [][ /\ LoginsIn(pending') <= 1
      /\ LoginSucceeds => authToken' = BodyToken(last'.out)
      /\ ~LoginSettles => authToken' = authToken ]_vars

\* A login completed with token xyz while another request, sent before the
\* token was stored, is still in flight.
C16_Witness ==
  /\ last.name \in LoginNames
  /\ BodyToken(last.out) = Str("xyz")
  /\ authToken = Str("xyz")
  /\ InFlight = 1
  /\ \A c \in BagToSet(pending) : c.name \notin LoginNames
  /\ wire.Authorization = Undefined

\* C17: the health front ends never report failure.  Whatever upstream did,
\* GET /health answers 200 with status "ok" and eosApi "connected" exactly
\* when healthCheck returned true ("disconnected" otherwise), and the
\* eos_health_check tool returns success = true with data.status "healthy"
\* exactly when healthCheck returned true ("unhealthy" otherwise); the 500
\* answer and the success = false envelope never occur.
C17_HealthFrontEndsNeverFail ==
  (last.name \in HealthNames /\ last.calls > 0) =>
    LET healthy == last.adapter.value = Bool(TRUE) IN
    /\ ~last.adapter.threw
    /\ last.transport = "rest" =>
         /\ last.response.status = 200
         /\ Get(last.response.body, "status") = Str("ok")
         /\ Get(last.response.body, "eosApi") =
              Str(IF healthy THEN "connected" ELSE "disconnected")
    /\ last.transport = "mcp" =>
         /\ ~last.response.threw
         /\ Get(last.result, "success") = Bool(TRUE)
         /\ Get(last.result, "error") = Undefined
         /\ Get(Get(last.result, "data"), "status") =
              Str(IF healthy THEN "healthy" ELSE "unhealthy")

C17_Witness ==
  /\ last.transport = "rest" /\ last.name = "GET /health"
  /\ last.out = RejectedNoResponse("Network Error")
  /\ last.response.status = 200
  /\ Get(last.response.body, "eosApi") = Str("disconnected")
====
